---- MODULE Spec2Model ----
(***************************************************************************)
(* The request gateway of junaidfullstack/testing.                         *)
(*                                                                         *)
(* src/server.js holds two programs: the caching gateway (lines 1-341:     *)
(* POST /v1/chat/completions with the response cache and the retry         *)
(* transport, POST /v1/moderations) and a disk-upload variant (lines       *)
(* 348-638).  src/unnamed/part_000 is a third program, the disk-upload     *)
(* variant with moderations and legacy completions.                        *)
(*                                                                         *)
(* Node runs every handler on one event loop: the code between two awaits  *)
(* is one atomic step, and an await is a point where other requests run.   *)
(* Numbers keep the source's values; temperatures are counted in tenths    *)
(* (0.7 is 7, the ceiling 2 is 20).                                        *)
(***************************************************************************)
EXTENDS Integers, Sequences, FiniteSets, TLC

VARIABLES
  pc,        \* per request slot: where its handler is suspended
  req,       \* per request slot: the request being handled (req.body and locals)
  call,      \* per request slot: the frame of callOpenAIWithRetry
  cache,     \* the response cache (server.js:66), key -> parsed response
  overlap,   \* per request slot: another request used the cache since this one's lookup
  transport, \* the scripted transport of the retry scenarios (<<>>: the live upstream)
  OPENAI_KEY, \* process.env.OPENAI_API_KEY is set
  uploads,   \* the uploads directory: filename -> the file is older than maxAge
  timers,    \* the pending setTimeout callbacks that delete a request's files
  last       \* the response most recently written to a client

\* What no handler writes: the environment of the process.
env == <<transport, OPENAI_KEY>>

\* The uploads directory and the timers over it, which only the disk-upload
\* variant has.
disk == <<uploads, timers>>

vars == <<pc, req, call, cache, overlap, transport, OPENAI_KEY, uploads, timers, last>>

(* ------------------------------ bounds -------------------------------- *)

\* Requests that can be in flight at once.
MaxInFlight == 2

Slots == 1..MaxInFlight

(* --------------------------- configuration ---------------------------- *)

MAX_INPUT_CHARS == 8000
MAX_TOKENS_OUT == 1000
\* 0.7, in tenths
DEFAULT_TEMP == 7
\* the fallback of req.body.max_tokens ?? 512
DEFAULT_MAX_TOKENS == 512
\* the ceiling 2 of the temperature clamp, in tenths
TEMP_CEILING == 20
\* buffer.length < 100 * 1024
CACHE_SIZE_CEILING == 100 * 1024
\* callOpenAIWithRetry(url, opts, retries = 3, delay = 1000)
retries == 3
delay == 1000

Min(a, b) == IF a < b THEN a ELSE b
Max(a, b) == IF a > b THEN a ELSE b

(* ------------------- JavaScript objects and JSON ---------------------- *)

\* An object is the sequence of its own properties in insertion order, each
\* [k |-> name, v |-> value]; a value is [str |-> ..], [num |-> ..],
\* [bool |-> ..] or [msgs |-> ..].
Has(obj, k) == \E i \in 1..Len(obj) : obj[i].k = k
IndexOf(obj, k) == CHOOSE i \in 1..Len(obj) : obj[i].k = k
Get(obj, k) == obj[IndexOf(obj, k)].v

P(k, v) == [k |-> k, v |-> v]
Str(x) == [str |-> x]
Num(x) == [num |-> x]
Bool(x) == [bool |-> x]
Msgs(x) == [msgs |-> x]

\* obj[k] = v: an existing property keeps its place, a new one goes last.
SetProp(obj, k, v) ==
  IF Has(obj, k) THEN [obj EXCEPT ![IndexOf(obj, k)].v = v]
  ELSE Append(obj, [k |-> k, v |-> v])

\* JSON.stringify(obj): the properties in insertion order, each rendered as
\* the pair of its name and its value's text.
JSONstringify(obj) == [i \in 1..Len(obj) |-> <<obj[i].k, obj[i].v>>]

cacheKey(body) == JSONstringify(body)

\* The capacity the specification gives the cache ("e.g. 500"), scaled to
\* the model's keys; the code configures none.
CACHE_CAPACITY == 2

(* --------------------------- pure helpers ----------------------------- *)

\* msgs[i].content?.length ?? 0
ContentLength(m) ==
  IF "content" \in DOMAIN m /\ "length" \in DOMAIN m.content
  THEN m.content.length ELSE 0

\* truncateLoop with the test of line 77 as total >= MAX_INPUT_CHARS.
RECURSIVE truncateLoopBreaksAtBudget(_, _, _, _)
truncateLoopBreaksAtBudget(msgs, i, total, result) ==
  IF i < 1 THEN result
  ELSE LET t == total + ContentLength(msgs[i]) IN
       IF t >= MAX_INPUT_CHARS THEN result
       ELSE truncateLoopBreaksAtBudget(msgs, i - 1, t, <<msgs[i]>> \o result)

\* truncateLoop that passes over a message that does not fit (continue in
\* place of break, the message's length not counted) and goes on to older ones.
RECURSIVE truncateLoopSkips(_, _, _, _)
truncateLoopSkips(msgs, i, total, result) ==
  IF i < 1 THEN result
  ELSE LET t == total + ContentLength(msgs[i]) IN
       IF t > MAX_INPUT_CHARS THEN truncateLoopSkips(msgs, i - 1, total, result)
       ELSE truncateLoopSkips(msgs, i - 1, t, <<msgs[i]>> \o result)

\* Lines 75-79: the loop from index i (counted from 1) down to the oldest.
RECURSIVE truncateLoop(_, _, _, _)
truncateLoop(msgs, i, total, result) ==
  IF i < 1 THEN result
  ELSE LET t == total + ContentLength(msgs[i]) IN
       IF t > MAX_INPUT_CHARS THEN result
       ELSE truncateLoop(msgs, i - 1, t, <<msgs[i]>> \o result)

\* truncateMessages with the loop started at msgs.length - 2: the newest
\* message is never looked at.
truncateFromSecondNewest(msgs) == truncateLoop(msgs, Len(msgs) - 1, 0, <<>>)

truncateMessages(msgs) == truncateLoop(msgs, Len(msgs), 0, <<>>)

modelMap ==
  [m \in {"gpt-3.5-turbo", "gpt-4", "gpt-4-turbo"} |-> "gpt-4o-mini"]

mapModelToOpenAI(model) ==
  IF model \in DOMAIN modelMap THEN modelMap[model] ELSE "gpt-4o-mini"

(* --------------------- the upstream and its answers ------------------- *)

\* A response body as the gateway sees it: its bytes (named by text), whether
\* JSON.parse accepts them, and buffer.length.
Body(text, parses, length) == [text |-> text, parses |-> parses, length |-> length]

BodyA == Body("A", TRUE, CACHE_SIZE_CEILING - 1)
BodyB == Body("B", TRUE, 300)
BodyBig == Body("BIG", TRUE, CACHE_SIZE_CEILING)
BodySSE == Body("data: ...", FALSE, 300)
BodyErr == Body("error", TRUE, 120)

\* What one call of undiciRequest can do: reject (a network-level failure,
\* named by the ordinal of the call it failed), resolve with a response whose
\* body then reads to the end, or resolve with a response whose body stream
\* fails while it is read.
NetworkError(n) == [name |-> "NetworkError", call |-> n]
Throw == [kind |-> "throw"]
Response(status, body) == [kind |-> "response", statusCode |-> status, body |-> body]
BrokenBody(status) == [kind |-> "bodyfail", statusCode |-> status]

\* The n-th call of a request settles as o: a rejection carries an error
\* object of its own.
Settled(o, n) ==
  IF o.kind = "throw" THEN [kind |-> "throw", err |-> NetworkError(n)] ELSE o

(* ------------------------ callOpenAIWithRetry ------------------------- *)

\* The frame of one call: the loop counter i, the transport calls made, the
\* waits it has slept, and how it stands.
NewCall == [i |-> 0, attempts |-> 0, delays |-> <<>>, st |-> "calling",
            result |-> [kind |-> "none"]]
NoCall == [i |-> 0, attempts |-> 0, delays |-> <<>>, st |-> "none",
           result |-> [kind |-> "none"]]

\* retryAttempt with the bound of line 100 one too small: the call gives up
\* after retries - 1 failures.
retryAttemptGivesUpEarly(f, o) ==
  LET n == f.attempts + 1 IN
  IF o.kind = "throw"
  THEN IF f.i < retries - 2
       THEN [f EXCEPT !.attempts = n, !.st = "sleeping",
                      !.delays = Append(f.delays, delay * (f.i + 1))]
       ELSE [f EXCEPT !.attempts = n, !.st = "thrown",
                      !.result = [kind |-> "error", err |-> o.err]]
  ELSE [f EXCEPT !.attempts = n, !.st = "returned", !.result = o]

\* retryAttempt with the bound of line 100 one too large: the last failure
\* sleeps and tries again instead of throwing.
retryAttemptTriesAgain(f, o) ==
  LET n == f.attempts + 1 IN
  IF o.kind = "throw"
  THEN IF f.i < retries
       THEN [f EXCEPT !.attempts = n, !.st = "sleeping",
                      !.delays = Append(f.delays, delay * (f.i + 1))]
       ELSE [f EXCEPT !.attempts = n, !.st = "thrown",
                      !.result = [kind |-> "error", err |-> o.err]]
  ELSE [f EXCEPT !.attempts = n, !.st = "returned", !.result = o]

\* retryAttempt with the wait of line 101 as delay * i.
retryAttemptWaitsByIndex(f, o) ==
  LET n == f.attempts + 1 IN
  IF o.kind = "throw"
  THEN IF f.i < retries - 1
       THEN [f EXCEPT !.attempts = n, !.st = "sleeping",
                      !.delays = Append(f.delays, delay * f.i)]
       ELSE [f EXCEPT !.attempts = n, !.st = "thrown",
                      !.result = [kind |-> "error", err |-> o.err]]
  ELSE [f EXCEPT !.attempts = n, !.st = "returned", !.result = o]

\* undiciRequest has settled with outcome o (lines 95-105).
retryAttempt(f, o) ==
  LET n == f.attempts + 1 IN
  IF o.kind = "throw"
  THEN IF f.i < retries - 1
       THEN [f EXCEPT !.attempts = n, !.st = "sleeping",
                      !.delays = Append(f.delays, delay * (f.i + 1))]
       ELSE [f EXCEPT !.attempts = n, !.st = "thrown",
                      !.result = [kind |-> "error", err |-> o.err]]
  ELSE [f EXCEPT !.attempts = n, !.st = "returned", !.result = o]

\* The setTimeout of line 101 has fired: i++ and the next turn of the loop.
retryWake(f) == [f EXCEPT !.i = f.i + 1, !.st = "calling"]

(* --------------------------- the response cache ----------------------- *)

\* const cache = new Map(): the value held under each key.  (A Map also
\* keeps the keys in insertion order; the program never iterates it.)
EmptyCache == [k \in {} |-> k]
cacheHas(c, key) == key \in DOMAIN c
cacheGet(c, key) == c[key]

\* cacheSet that starts the map afresh with each insert.
cacheSetFresh(c, key, value) == [k \in {key} |-> value]

\* cacheSet that leaves the entry of a key the map already has.
cacheSetKeepsFirst(c, key, value) ==
  [k \in DOMAIN c \cup {key} |-> IF k \in DOMAIN c THEN c[k] ELSE value]

\* Map.prototype.set
cacheSet(c, key, value) ==
  [k \in DOMAIN c \cup {key} |-> IF k = key THEN value ELSE c[k]]

\* JSON.parse(buffer.toString()), where it does not throw.
JSONparse(buffer) == [json |-> buffer.text]

(* ------------------ POST /v1/chat/completions (cached) ---------------- *)

\* messagesMissing taken after truncation: a list that truncates to nothing
\* counts as missing.
messagesMissingOnceTruncated(body) ==
  IF Has(body, "messages")
  THEN Len(truncateMessages(Get(body, "messages").msgs)) = 0 ELSE TRUE

\* !messages?.length
messagesMissing(body) ==
  IF Has(body, "messages") THEN Len(Get(body, "messages").msgs) = 0 ELSE TRUE

\* const { stream = false } = req.body
streamOf(body) == IF Has(body, "stream") THEN Get(body, "stream").bool ELSE FALSE

\* Lines 141-144: req.body is rewritten in place.
normalizeBody(body) ==
  LET model == IF Has(body, "model") THEN Get(body, "model").str ELSE "gpt-4"
      b1 == SetProp(body, "model", [str |-> mapModelToOpenAI(model)])
      b2 == SetProp(b1, "messages",
                    [msgs |-> truncateMessages(Get(body, "messages").msgs)])
      b3 == SetProp(b2, "max_tokens",
              [num |-> Min(IF Has(b2, "max_tokens") THEN Get(b2, "max_tokens").num
                           ELSE DEFAULT_MAX_TOKENS, MAX_TOKENS_OUT)])
      b4 == SetProp(b3, "temperature",
              [num |-> Min(Max(IF Has(b3, "temperature") THEN Get(b3, "temperature").num
                               ELSE DEFAULT_TEMP, 0), TEMP_CEILING)])
  IN b4

\* Line 147: !stream && cache.has(key); cache.has is evaluated only when
\* stream is falsy.
cacheConsulted(stream) == ~stream
cacheHit(c, key, stream) == cacheConsulted(stream) /\ cacheHas(c, key)

\* cacheable without the try of lines 168-170 around JSON.parse: whatever
\* the body holds is stored.
cacheableUnparsed(statusCode, buffer) ==
  statusCode = 200 /\ buffer.length < CACHE_SIZE_CEILING

\* Line 167: statusCode === 200 && buffer.length < 100 * 1024, and the
\* JSON.parse of line 169 does not throw.
cacheable(statusCode, buffer) ==
  statusCode = 200 /\ buffer.length < CACHE_SIZE_CEILING /\ buffer.parses

NoReq == [route |-> "none"]
NoReply == [route |-> "none"]

\* What res is given: res.json(value), or res.send(buffer).
ResJson(value) == [via |-> "json", value |-> value]
ResSend(buffer) == [via |-> "send", buffer |-> buffer]

\* The response written for the request in slot r, with what its handler did.
Reply(r, status, res, q, f, hit, inserted) ==
  [route |-> q.route, slot |-> r, status |-> status, res |-> res,
   body0 |-> q.body0, sent |-> q.body, key |-> q.key, stream |-> q.stream,
   lookedUp |-> q.lookedUp, hit |-> hit, inserted |-> inserted,
   calls |-> f.attempts, delays |-> f.delays, result |-> f.result,
   overlapped |-> overlap[r]]

\* Slot r has used the cache: every other request between its own lookup and
\* its own insert has been overlapped.
MarkOverlap(r, used) ==
  [s \in Slots |->
     IF s = r THEN FALSE
     ELSE IF used /\ pc[s] # "idle" /\ req[s].lookedUp THEN TRUE ELSE overlap[s]]

Finish(r, reply, used) ==
  /\ pc' = [pc EXCEPT ![r] = "idle"]
  /\ req' = [req EXCEPT ![r] = NoReq]
  /\ call' = [call EXCEPT ![r] = NoCall]
  /\ overlap' = MarkOverlap(r, used)
  /\ last' = reply

\* A request arrives: lines 135-149, up to the await of line 151.
ChatReceive(r, body) ==
  /\ pc[r] = "idle"
  /\ IF messagesMissing(body)
     THEN LET q == [route |-> "chat", body0 |-> body, body |-> body, key |-> <<>>,
                    stream |-> streamOf(body), lookedUp |-> FALSE] IN
          /\ Finish(r, Reply(r, 400, ResJson([error |-> "Messages required"]),
                              q, NoCall, FALSE, FALSE), FALSE)
          /\ UNCHANGED cache
     ELSE LET nb == normalizeBody(body)
              stream == streamOf(body)
              key == cacheKey(nb)
              q == [route |-> "chat", body0 |-> body, body |-> nb, key |-> key,
                    stream |-> stream, lookedUp |-> cacheConsulted(stream)] IN
          IF cacheHit(cache, key, stream)
          THEN /\ Finish(r, Reply(r, 200, ResJson(cacheGet(cache, key)),
                                   q, NoCall, TRUE, FALSE), TRUE)
               /\ UNCHANGED cache
          ELSE /\ pc' = [pc EXCEPT ![r] = "calling"]
               /\ req' = [req EXCEPT ![r] = q]
               /\ call' = [call EXCEPT ![r] = NewCall]
               /\ overlap' = MarkOverlap(r, q.lookedUp)
               /\ UNCHANGED <<cache, last>>

\* undiciRequest settles with outcome o: the catch of lines 98-105, or lines
\* 163-175 once the body has been read, or the catch of lines 177-180.
ChatAttempt(r, o) ==
  /\ pc[r] = "calling"
  /\ req[r].route = "chat"
  /\ LET g == retryAttempt(call[r], Settled(o, call[r].attempts + 1))
         q == req[r] IN
     CASE g.st = "sleeping" ->
            /\ pc' = [pc EXCEPT ![r] = "sleeping"]
            /\ call' = [call EXCEPT ![r] = g]
            /\ UNCHANGED <<req, cache, overlap, last>>
       [] g.st = "thrown" \/ o.kind = "bodyfail" ->
            /\ Finish(r, Reply(r, 500, ResJson([error |-> "Chat failed"]),
                                q, g, FALSE, FALSE), FALSE)
            /\ UNCHANGED cache
       [] OTHER ->
            LET store == cacheable(o.statusCode, o.body) IN
            /\ cache' = IF store THEN cacheSet(cache, q.key, JSONparse(o.body))
                         ELSE cache
            /\ Finish(r, Reply(r, o.statusCode, ResSend(o.body), q, g, FALSE, store),
                      store)

\* The backoff timer of a sleeping call fires.
RetryWake(r) ==
  /\ pc[r] = "sleeping"
  /\ pc' = [pc EXCEPT ![r] = "calling"]
  /\ call' = [call EXCEPT ![r] = retryWake(call[r])]
  /\ UNCHANGED <<req, cache, overlap, last>>

(* ------- POST /v1/chat/completions (cached), the body chunk by chunk --- *)

\* Chunks one upstream body can arrive in.
MaxChunks == 3

\* A chunk is the sequence of its bytes.  Buffer.concat(chunks):
RECURSIVE BufferConcat(_)
BufferConcat(chunks) ==
  IF chunks = <<>> THEN <<>> ELSE Head(chunks) \o BufferConcat(Tail(chunks))

\* The one JSON document of the model, byte by byte; every other sequence of
\* the model's bytes (server-sent events among them) makes JSON.parse throw.
JSONDocument == <<"{", "}">>

\* Lines 163-165: the buffer the handler holds once the body has ended.
BufferOf(chunks) ==
  LET bytes == BufferConcat(chunks) IN
  Body(bytes, bytes = JSONDocument, Len(bytes))

\* Lines 151-161: undiciRequest resolves with the status line and headers of
\* the upstream; the body is a stream still to be read.  req[r].chunks is the
\* handler's chunks, req[r].res the bytes written to the client so far.
ChatResponds(r, status) ==
  /\ pc[r] = "calling"
  /\ req[r].route = "chat"
  /\ pc' = [pc EXCEPT ![r] = "reading"]
  /\ call' = [call EXCEPT ![r] = retryAttempt(call[r], Response(status, "stream"))]
  /\ req' = [req EXCEPT ![r] = req[r] @@ [chunks |-> <<>>, res |-> <<>>]]
  /\ UNCHANGED <<cache, overlap, last>>

\* Line 164: one turn of `for await (const chunk of body) chunks.push(chunk)`.
ChatChunk(r, chunk) ==
  /\ pc[r] = "reading"
  /\ Len(req[r].chunks) < MaxChunks
  /\ req' = [req EXCEPT ![r].chunks = Append(@, chunk)]
  /\ UNCHANGED <<pc, call, cache, overlap, last>>

\* Lines 165-175: the upstream has ended the body.
ChatBodyEnds(r) ==
  /\ pc[r] = "reading"
  /\ LET q == req[r]
         g == call[r]
         buffer == BufferOf(q.chunks)
         store == cacheable(g.result.statusCode, buffer) IN
     /\ cache' = IF store THEN cacheSet(cache, q.key, JSONparse(buffer)) ELSE cache
     /\ Finish(r, Reply(r, g.result.statusCode, ResSend(buffer), q, g, FALSE, store),
               store)

\* Line 164 rejects: the body stream fails; the catch of lines 177-180.
ChatBodyFails(r) ==
  /\ pc[r] = "reading"
  /\ Finish(r, Reply(r, 500, ResJson([error |-> "Chat failed"]), req[r], call[r],
                      FALSE, FALSE), FALSE)
  /\ UNCHANGED cache

(* ----------------- POST /v1/moderations, both programs ---------------- *)

ModRequest(prog, body) ==
  [route |-> "moderations", prog |-> prog, body0 |-> body, body |-> body,
   key |-> <<>>, stream |-> FALSE, lookedUp |-> FALSE]

\* One fetch that has settled with outcome o, as a call frame: fetch is
\* called once and never retried.
fetchOnce(o) ==
  [NewCall EXCEPT !.attempts = 1,
                  !.st = IF o.kind = "throw" THEN "thrown" ELSE "returned",
                  !.result = IF o.kind = "throw"
                             THEN [kind |-> "error", err |-> Settled(o, 1).err]
                             ELSE o]

\* server.js:323
BypassOfGateway == [flagged |-> FALSE, bypassed |-> TRUE]
\* part_000:231-234, 254-257, 263-266
BypassOfVariant ==
  [bypassed |-> TRUE,
   message |-> "Moderation temporarily unavailable - continuing safely."]

\* server.js:298-312: the gateway's handler goes straight to the upstream.
ModGatewayReceive(r, body) ==
  /\ pc[r] = "idle"
  /\ pc' = [pc EXCEPT ![r] = "calling"]
  /\ req' = [req EXCEPT ![r] = ModRequest("server.js", body)]
  /\ call' = [call EXCEPT ![r] = NewCall]
  /\ UNCHANGED <<cache, overlap, last>>

\* server.js:302-324: undiciRequest settles with outcome o.
ModGatewayAttempt(r, o) ==
  /\ pc[r] = "calling"
  /\ req[r].route = "moderations" /\ req[r].prog = "server.js"
  /\ LET g == retryAttempt(call[r], Settled(o, call[r].attempts + 1))
         q == req[r] IN
     CASE g.st = "sleeping" ->
            /\ pc' = [pc EXCEPT ![r] = "sleeping"]
            /\ call' = [call EXCEPT ![r] = g]
            /\ UNCHANGED <<req, cache, overlap, last>>
       [] g.st = "thrown" \/ o.kind = "bodyfail" ->
            /\ Finish(r, Reply(r, 200, ResJson(BypassOfGateway), q, g, FALSE, FALSE),
                      FALSE)
            /\ UNCHANGED cache
       [] OTHER ->
            /\ Finish(r, Reply(r, o.statusCode, ResSend(o.body), q, g, FALSE, FALSE),
                      FALSE)
            /\ UNCHANGED cache

\* part_000:227-247: the variant's handler up to the await of fetch.
ModVariantReceive(r, body) ==
  /\ pc[r] = "idle"
  /\ LET q == ModRequest("part_000", body) IN
     IF ~OPENAI_KEY
     THEN /\ Finish(r, Reply(r, 200, ResJson(BypassOfVariant), q, NoCall, FALSE, FALSE),
                    FALSE)
          /\ UNCHANGED cache
     ELSE /\ pc' = [pc EXCEPT ![r] = "fetching"]
          /\ req' = [req EXCEPT ![r] = q]
          /\ call' = [call EXCEPT ![r] = NewCall]
          /\ UNCHANGED <<cache, overlap, last>>

\* part_000:249-267: fetch settles with outcome o; response.ok is a status
\* of 200 to 299, and response.json() rejects on a body that does not parse
\* or does not arrive.
ModVariantFetched(r, o) ==
  /\ pc[r] = "fetching"
  /\ req[r].route = "moderations"
  /\ LET g == fetchOnce(o)
         q == req[r]
         ok == o.kind # "throw" /\ o.statusCode \in 200..299 IN
     /\ Finish(r,
               IF ok /\ o.kind = "response" /\ o.body.parses
               THEN Reply(r, 200, ResJson(JSONparse(o.body)), q, g, FALSE, FALSE)
               ELSE Reply(r, 200, ResJson(BypassOfVariant), q, g, FALSE, FALSE),
               FALSE)
     /\ UNCHANGED cache

(* ------------- POST /v1/chat/completions, disk-upload variant --------- *)

\* part_000:22
VARIANT_MAX_TOKENS_OUT == 4000
\* the fallback of body.max_tokens || 1000
VARIANT_DEFAULT_MAX_TOKENS == 1000

\* x || d on a number: 0 is falsy.
OrDefault(obj, k, d) ==
  IF Has(obj, k) /\ Get(obj, k).num # 0 THEN Get(obj, k).num ELSE d

\* Names the uploads directory and the pending timers can hold at once.
MaxFiles == 2

\* The directory when the process starts with nothing uploaded.
EmptyDir == [f \in {} |-> FALSE]

\* part_000:35-38: Date.now(), a random string and the original name make a
\* name that no file in use has; the n-th name not in use stands for it.
UsedIds ==
  {f[1] : f \in DOMAIN uploads} \cup UNION {{f[1] : f \in t.files} : t \in timers}
FreeIds == (1..MaxFiles) \ UsedIds

RECURSIVE nthSmallest(_, _)
nthSmallest(S, n) ==
  LET m == CHOOSE x \in S : \A y \in S : x <= y IN
  IF n = 1 THEN m ELSE nthSmallest(S \ {m}, n - 1)

uniqueName(file, n) == <<nthSmallest(FreeIds, n), file.originalname>>

\* multer's diskStorage: each file of the request is written to the uploads
\* directory under its unique name before the handler runs, and req.files
\* lists them.
diskStorage(files) ==
  [i \in 1..Len(files) |->
     [originalname |-> files[i].originalname, mimetype |-> files[i].mimetype,
      size |-> files[i].size, image |-> files[i].image,
      filename |-> uniqueName(files[i], i)]]

filenames(files) == {files[i].filename : i \in 1..Len(files)}

\* The directory after the files named in names are written, each new.
written(dir, names) ==
  [f \in DOMAIN dir \cup names |-> IF f \in names THEN FALSE ELSE dir[f]]

\* The directory after unlinkSync of each of names inside its own try/catch:
\* a name that is already gone throws, is logged, and the rest go on.
unlinked(dir, names) == [f \in DOMAIN dir \ names |-> dir[f]]

\* part_000:207-215: the callback of setTimeout(..., 30000) and its files.
CleanupTimer(files) == [files |-> filenames(files)]

\* part_000:165-174: one line of context per file.
fileInfo(file) ==
  [name |-> file.originalname, type |-> file.mimetype, size |-> file.size,
   image |-> file.image]
fileContextOf(files) == [i \in 1..Len(files) |-> fileInfo(files[i])]

\* part_000:178-184: the context goes onto the last message when its
\* content is a string.
withFileContext(messages, fileContext) ==
  IF Len(fileContext) > 0 /\ Len(messages) > 0
  THEN LET lastUserIndex == Len(messages)
           c == messages[lastUserIndex].content IN
       IF "text" \in DOMAIN c
       THEN [messages EXCEPT ![lastUserIndex].content =
               [text |-> c.text, context |-> fileContext]]
       ELSE messages
  ELSE messages

\* part_000:193-199: the body given to fetch.
variantUpstreamBody(body, messages) ==
  <<P("model", [str |-> IF Has(body, "model") THEN Get(body, "model").str
                        ELSE "gpt-3.5-turbo"]),
    P("messages", [msgs |-> messages]),
    P("temperature", [num |-> OrDefault(body, "temperature", DEFAULT_TEMP)]),
    P("max_tokens", [num |-> Min(OrDefault(body, "max_tokens", VARIANT_DEFAULT_MAX_TOKENS),
                                 VARIANT_MAX_TOKENS_OUT)]),
    P("stream", [bool |-> FALSE])>>

\* The response of the variant's chat handler, with the files the request
\* came with.
UploadReply(r, status, res, q, f) ==
  Reply(r, status, res, q, f, FALSE, FALSE) @@ [files |-> filenames(q.files)]

\* part_000:150-200 (and server.js:494-544): upload.array('files', 3) stores
\* the request's files, then the handler runs up to the await of fetch.
UploadChatReceive(r, body, upload) ==
  /\ pc[r] = "idle"
  /\ Len(upload) <= Cardinality(FreeIds)
  /\ LET files == diskStorage(upload)
         messages == IF Has(body, "messages") THEN Get(body, "messages").msgs ELSE <<>>
         sent == variantUpstreamBody(body, withFileContext(messages, fileContextOf(files)))
         q == [route |-> "upload-chat", body0 |-> body, body |-> sent, files |-> files,
               key |-> <<>>, stream |-> FALSE, lookedUp |-> FALSE] IN
     /\ uploads' = written(uploads, filenames(files))
     /\ UNCHANGED timers
     /\ IF ~OPENAI_KEY
        THEN /\ Finish(r, UploadReply(r, 500,
                                      ResJson([error |-> "Server configuration error"]),
                                      [q EXCEPT !.body = body], NoCall), FALSE)
             /\ UNCHANGED cache
        ELSE /\ pc' = [pc EXCEPT ![r] = "fetching"]
             /\ req' = [req EXCEPT ![r] = q]
             /\ call' = [call EXCEPT ![r] = NewCall]
             /\ UNCHANGED <<cache, overlap, last>>

\* part_000:202-223 (and server.js:546-567): fetch settles with outcome o,
\* and response.json() rejects on a body that does not parse or arrive.
UploadChatFetched(r, o) ==
  /\ pc[r] = "fetching"
  /\ req[r].route = "upload-chat"
  /\ LET g == fetchOnce(o)
         q == req[r] IN
     /\ IF o.kind = "response" /\ o.body.parses
        THEN /\ timers' = timers \cup {CleanupTimer(q.files)}
             /\ Finish(r, UploadReply(r, o.statusCode, ResJson(JSONparse(o.body)), q, g),
                       FALSE)
        ELSE /\ UNCHANGED timers
             /\ Finish(r, UploadReply(r, 500, ResJson([error |-> "Internal server error"]),
                                      q, g), FALSE)
     /\ UNCHANGED <<cache, uploads>>

\* part_000:208-214: a request's timer fires and deletes its files.
CleanupTimerFires(t) ==
  /\ t \in timers
  /\ uploads' = unlinked(uploads, t.files)
  /\ timers' = timers \ {t}
  /\ UNCHANGED <<pc, req, call, cache, overlap, last>>

\* Time passes: the file named f is now more than maxAge (one hour) old.
FileAges(f) ==
  /\ f \in DOMAIN uploads /\ ~uploads[f]
  /\ uploads' = [uploads EXCEPT ![f] = TRUE]
  /\ UNCHANGED <<pc, req, call, cache, overlap, timers, last>>

\* Sweep with the test of line 368 turned round: it deletes the files that
\* are not yet maxAge old.
SweepOfTheYoung ==
  /\ uploads' = unlinked(uploads, {f \in DOMAIN uploads : ~uploads[f]})
  /\ UNCHANGED <<pc, req, call, cache, overlap, timers, last>>

\* part_000:360-376: the callback of setInterval(..., 30 minutes) deletes
\* every file that is more than maxAge old.
Sweep ==
  /\ uploads' = unlinked(uploads, {f \in DOMAIN uploads : uploads[f]})
  /\ UNCHANGED <<pc, req, call, cache, overlap, timers, last>>

(* -------------------- POST /upload, disk-upload variant --------------- *)

\* extractedText.substring(0, 2000), extractedText.length > 2000
EXCERPT_CHARS == 2000

\* substring with its end index taken as the last index kept.
substringInclusive(str, start, end) == SubSeq(str, start + 1, Min(end + 1, Len(str)))

\* String.prototype.substring(start, end) for 0 <= start <= end: the
\* characters at the indices start .. end - 1 that the string has.
substring(str, start, end) == SubSeq(str, start + 1, Min(end, Len(str)))

\* part_000:114-128 (and server.js:458-472): upload.single('file') stores
\* the file, then the handler runs up to the await of readFile, or to its
\* response when there is nothing to read.
UploadFileReceive(r, upload) ==
  /\ pc[r] = "idle"
  /\ Len(upload) <= Cardinality(FreeIds)
  /\ UNCHANGED <<cache, timers>>
  /\ IF upload = <<>>
     THEN /\ Finish(r, [route |-> "upload", slot |-> r, status |-> 400,
                        res |-> ResJson([error |-> "No file uploaded"]),
                        file |-> <<>>], FALSE)
          /\ UNCHANGED uploads
     ELSE LET file == [upload[1] EXCEPT !.filename = uniqueName(upload[1], 1)] IN
          /\ uploads' = written(uploads, {file.filename})
          /\ IF file.mimetype = "text/plain"
             THEN /\ pc' = [pc EXCEPT ![r] = "readFile"]
                  /\ req' = [req EXCEPT ![r] = [route |-> "upload", file |-> file]]
                  /\ UNCHANGED <<call, overlap, last>>
             ELSE Finish(r, [route |-> "upload", slot |-> r, status |-> 200,
                             res |-> ResJson([success |-> TRUE,
                                              fileName |-> file.originalname,
                                              fileSize |-> file.size,
                                              mimeType |-> file.mimetype,
                                              extractedText |-> <<>>,
                                              fullTextAvailable |-> FALSE]),
                             file |-> file], FALSE)

\* part_000:128-146: readFile settles, with the file's text when ok, and the
\* handler answers.
UploadFileRead(r, ok) ==
  /\ pc[r] = "readFile"
  /\ LET file == req[r].file
         extractedText == file.text IN
     Finish(r, IF ok
               THEN [route |-> "upload", slot |-> r, status |-> 200,
                     res |-> ResJson([success |-> TRUE,
                                      fileName |-> file.originalname,
                                      fileSize |-> file.size,
                                      mimeType |-> file.mimetype,
                                      extractedText |->
                                        substring(extractedText, 0, EXCERPT_CHARS),
                                      fullTextAvailable |->
                                        Len(extractedText) > EXCERPT_CHARS]),
                     file |-> file]
               ELSE [route |-> "upload", slot |-> r, status |-> 500,
                     res |-> ResJson([error |-> "Upload failed"]), file |-> file],
            FALSE)
  /\ UNCHANGED <<cache, uploads, timers>>

(* ---------------- POST /v1/completions (legacy), part_000 ------------- *)

\* part_000:289-294: the body given to fetch.
legacyUpstreamBody(body) ==
  <<P("model", [str |-> IF Has(body, "model") THEN Get(body, "model").str
                        ELSE "text-davinci-003"]),
    P("prompt", [str |-> IF Has(body, "prompt") THEN Get(body, "prompt").str ELSE ""]),
    P("temperature", [num |-> OrDefault(body, "temperature", DEFAULT_TEMP)]),
    P("max_tokens", [num |-> Min(OrDefault(body, "max_tokens", VARIANT_DEFAULT_MAX_TOKENS),
                                 VARIANT_MAX_TOKENS_OUT)])>>

\* part_000:271-295: up to the await of fetch; url is the upstream endpoint
\* the request goes to.
LegacyReceive(r, body) ==
  /\ pc[r] = "idle"
  /\ LET q == [route |-> "completions", body0 |-> body, body |-> legacyUpstreamBody(body),
               url |-> "https://api.openai.com/v1/completions",
               key |-> <<>>, stream |-> FALSE, lookedUp |-> FALSE] IN
     IF ~OPENAI_KEY
     THEN /\ Finish(r, Reply(r, 500, ResJson([error |-> "Server configuration error"]),
                             [q EXCEPT !.body = body], NoCall, FALSE, FALSE), FALSE)
          /\ UNCHANGED cache
     ELSE /\ pc' = [pc EXCEPT ![r] = "fetching"]
          /\ req' = [req EXCEPT ![r] = q]
          /\ call' = [call EXCEPT ![r] = NewCall]
          /\ UNCHANGED <<cache, overlap, last>>

\* part_000:297-306: fetch settles with outcome o, and response.json()
\* rejects on a body that does not parse or arrive.
LegacyFetched(r, o) ==
  /\ pc[r] = "fetching"
  /\ req[r].route = "completions"
  /\ LET g == fetchOnce(o)
         q == req[r] IN
     /\ Finish(r,
               IF o.kind = "response" /\ o.body.parses
               THEN Reply(r, o.statusCode, ResJson(JSONparse(o.body)), q, g, FALSE, FALSE)
               ELSE Reply(r, 500, ResJson([error |-> "Internal server error"]),
                          q, g, FALSE, FALSE),
               FALSE)
     /\ UNCHANGED cache

(* ------------------------------ inputs -------------------------------- *)

Msg(role, text, length) ==
  [role |-> role, content |-> [text |-> text, length |-> length]]

MsgHi == Msg("user", "hi", 2)
\* together with MsgHi one character over MAX_INPUT_CHARS
MsgOld == Msg("user", "old", MAX_INPUT_CHARS - 1)

\* {model: 'gpt-4', messages: [hi]}
BodyPlain == <<P("model", Str("gpt-4")), P("messages", Msgs(<<MsgHi>>))>>
\* the same through another alias of the model map
BodyAlias == <<P("model", Str("gpt-3.5-turbo")), P("messages", Msgs(<<MsgHi>>))>>
\* the same with an older message that truncation drops
BodyLong == <<P("model", Str("gpt-4")), P("messages", Msgs(<<MsgOld, MsgHi>>))>>
\* the same with the default temperature sent explicitly
BodyTemp == BodyPlain \o <<P("temperature", Num(DEFAULT_TEMP))>>
\* the same as a streaming request
BodyStream == BodyPlain \o <<P("stream", Bool(TRUE))>>
\* messages: [] and no messages at all
BodyEmpty == <<P("model", Str("gpt-4")), P("messages", Msgs(<<>>))>>
BodyNoMessages == <<P("model", Str("gpt-4"))>>

\* another conversation
BodyBye == <<P("model", Str("gpt-4")), P("messages", Msgs(<<Msg("user", "bye", 3)>>))>>

ChatBodies ==
  {BodyPlain, BodyAlias, BodyLong, BodyTemp, BodyStream, BodyBye, BodyEmpty,
   BodyNoMessages}

Outcomes ==
  {Throw, Response(200, BodyA), Response(200, BodyB), Response(200, BodyBig),
   Response(200, BodySSE), Response(429, BodyErr), Response(500, BodyErr),
   BrokenBody(200)}

(* --------------------------- specifications --------------------------- *)

Init ==
  /\ pc = [r \in Slots |-> "idle"]
  /\ req = [r \in Slots |-> NoReq]
  /\ call = [r \in Slots |-> NoCall]
  /\ cache = EmptyCache
  /\ overlap = [r \in Slots |-> FALSE]
  /\ transport = <<>>
  /\ OPENAI_KEY = TRUE
  /\ uploads = EmptyDir
  /\ timers = {}
  /\ last = NoReply

\* One client at a time, every kind of request and every upstream answer.
Receive == \E body \in ChatBodies : ChatReceive(1, body) /\ UNCHANGED <<env, disk>>
Upstream == \E o \in Outcomes : ChatAttempt(1, o) /\ UNCHANGED <<env, disk>>
Wake == RetryWake(1) /\ UNCHANGED <<env, disk>>

Next == Receive \/ Upstream \/ Wake

Spec == Init /\ [][Next]_vars

\* Concurrent clients: MaxInFlight requests in flight, two conversations, an
\* upstream that answers each call with one of two cacheable responses.
ConcBodies == {BodyPlain, BodyBye}
ConcOutcomes == {Response(200, BodyA), Response(200, BodyB)}

ReceiveAny ==
  \E r \in Slots, body \in ConcBodies : ChatReceive(r, body) /\ UNCHANGED <<env, disk>>
UpstreamAny ==
  \E r \in Slots, o \in ConcOutcomes : ChatAttempt(r, o) /\ UNCHANGED <<env, disk>>

NextConc == ReceiveAny \/ UpstreamAny

SpecConc == Init /\ [][NextConc]_vars

\* One chat request over a scripted transport: transport[n] is what the n-th
\* call of undiciRequest does, one call more than callOpenAIWithRetry may make.
ScriptOutcomes == {Throw, Response(200, BodyA), Response(429, BodyErr)}
Scripts == [1..(retries + 1) -> ScriptOutcomes]

InitRetry ==
  /\ pc = [r \in Slots |-> "idle"]
  /\ req = [r \in Slots |-> NoReq]
  /\ call = [r \in Slots |-> NoCall]
  /\ cache = EmptyCache
  /\ overlap = [r \in Slots |-> FALSE]
  /\ transport \in Scripts
  /\ OPENAI_KEY = TRUE
  /\ uploads = EmptyDir
  /\ timers = {}
  /\ last = NoReply

ScriptedReceive ==
  /\ last.route = "none"
  /\ ChatReceive(1, BodyPlain)
  /\ UNCHANGED <<env, disk>>

ScriptedUpstream ==
  /\ call[1].attempts < Len(transport)
  /\ ChatAttempt(1, transport[call[1].attempts + 1])
  /\ UNCHANGED <<env, disk>>

NextRetry == ScriptedReceive \/ ScriptedUpstream \/ Wake

SpecRetry == InitRetry /\ [][NextRetry]_vars

\* The moderation handlers of both programs, with and without a credential.
\* Without one the upstream refuses every call it receives.
ModBody == <<P("input", Str("some text"))>>
BodyModeration == Body("moderation", TRUE, 200)

UpstreamAnswers ==
  IF OPENAI_KEY
  THEN {Throw, Response(200, BodyModeration), Response(200, BodySSE),
        Response(429, BodyErr), Response(503, BodyErr), BrokenBody(200)}
  ELSE {Throw, Response(401, BodyErr)}

InitAnyKey ==
  /\ pc = [r \in Slots |-> "idle"]
  /\ req = [r \in Slots |-> NoReq]
  /\ call = [r \in Slots |-> NoCall]
  /\ cache = EmptyCache
  /\ overlap = [r \in Slots |-> FALSE]
  /\ transport = <<>>
  /\ OPENAI_KEY \in BOOLEAN
  /\ uploads = EmptyDir
  /\ timers = {}
  /\ last = NoReply

ModGateway == ModGatewayReceive(1, ModBody) /\ UNCHANGED <<env, disk>>
ModGatewayUpstream == \E o \in UpstreamAnswers : ModGatewayAttempt(1, o) /\ UNCHANGED <<env, disk>>
ModVariant == ModVariantReceive(1, ModBody) /\ UNCHANGED <<env, disk>>
ModVariantUpstream == \E o \in UpstreamAnswers : ModVariantFetched(1, o) /\ UNCHANGED <<env, disk>>

NextMod == ModGateway \/ ModGatewayUpstream \/ Wake \/ ModVariant \/ ModVariantUpstream

SpecMod == InitAnyKey /\ [][NextMod]_vars

\* The disk-upload variant: its chat handler, its timers and its legacy
\* completions.
File(name, type, size, image) ==
  [originalname |-> name, mimetype |-> type, size |-> size, image |-> image]
FileText == File("notes.txt", "text/plain", 11, FALSE)
FilePng == File("cat.png", "image/png", 2048, TRUE)

UploadFiles == {<<>>, <<FileText>>, <<FilePng, FileText>>}

MsgSystem == Msg("system", "be brief", 8)

UploadBodies ==
  {<<P("messages", Msgs(<<MsgHi>>))>>,
   <<P("model", Str("gpt-4")), P("messages", Msgs(<<MsgSystem, MsgHi>>))>>,
   <<P("model", Str("gpt-4")), P("messages", Msgs(<<MsgHi, MsgSystem>>))>>,
   <<P("messages", Msgs(<<MsgHi>>)), P("temperature", Num(0)), P("max_tokens", Num(0))>>,
   <<P("messages", Msgs(<<MsgHi>>)), P("temperature", Num(30)), P("max_tokens", Num(5000))>>,
   BodyEmpty, BodyNoMessages}

\* the error page of a proxy in front of the upstream
BodyHtml == Body("<html>502 Bad Gateway</html>", FALSE, 150)

FetchOutcomes ==
  {Throw, Response(200, BodyA), Response(200, BodySSE), Response(500, BodyErr),
   Response(502, BodyHtml), BrokenBody(200)}

\* {prompt: '2+2='}, the same with a model and max_tokens, and no prompt
LegacyBodies ==
  {<<P("prompt", Str("2+2="))>>,
   <<P("model", Str("gpt-3.5-turbo-instruct")), P("prompt", Str("2+2=")),
     P("max_tokens", Num(5000))>>,
   <<P("model", Str("gpt-3.5-turbo-instruct"))>>}

\* What the upstream's completions endpoint answers a prompt with.
BodyCompletion ==
  Body([object |-> "text_completion", choices |-> <<[text |-> "4"]>>], TRUE, 180)

LegacyOutcomes ==
  {Throw, Response(200, BodyCompletion), Response(404, BodyErr), Response(502, BodyHtml)}

UploadReceive ==
  \E body \in UploadBodies, files \in UploadFiles :
    UploadChatReceive(1, body, files) /\ UNCHANGED env
UploadFetched == \E o \in FetchOutcomes : UploadChatFetched(1, o) /\ UNCHANGED env
TimerFires == \E t \in timers : CleanupTimerFires(t) /\ UNCHANGED env
Ages == \E f \in DOMAIN uploads : FileAges(f) /\ UNCHANGED env
Sweeps == Sweep /\ UNCHANGED env

Legacy == \E body \in LegacyBodies : LegacyReceive(1, body) /\ UNCHANGED <<env, disk>>
LegacyUpstream == \E o \in LegacyOutcomes : LegacyFetched(1, o) /\ UNCHANGED <<env, disk>>

NextUpload == UploadReceive \/ UploadFetched \/ TimerFires \/ Legacy \/ LegacyUpstream

SpecUpload == InitAnyKey /\ [][NextUpload]_vars

\* Every chat and completions handler, with and without a credential: the
\* gateway's chat handler next to the variant's handlers.
CredentialChat == ChatReceive(1, BodyPlain) /\ UNCHANGED <<env, disk>>
CredentialChatUpstream ==
  \E o \in UpstreamAnswers : ChatAttempt(1, o) /\ UNCHANGED <<env, disk>>

NextCredential ==
  \/ CredentialChat \/ CredentialChatUpstream \/ Wake
  \/ UploadReceive \/ UploadFetched \/ TimerFires \/ Legacy \/ LegacyUpstream

SpecCredential == InitAnyKey /\ [][NextCredential]_vars

\* POST /upload and the periodic sweep of the uploads directory: text files
\* of a few, EXCERPT_CHARS - 1, EXCERPT_CHARS and EXCERPT_CHARS + 1
\* characters (each character its own position in the file) and an image.
TextOf(n) == [i \in 1..n |-> i]
HelloWorld == <<"h", "e", "l", "l", "o", " ", "w", "o", "r", "l", "d">>

Texts ==
  {HelloWorld, TextOf(EXCERPT_CHARS - 1), TextOf(EXCERPT_CHARS),
   TextOf(EXCERPT_CHARS + 1)}

Upload(name, type, text) ==
  [originalname |-> name, mimetype |-> type, size |-> Len(text), text |-> text,
   filename |-> <<>>]

SingleUploads ==
  {<<>>, <<Upload("cat.png", "image/png", <<137, 80, 78, 71>>)>>}
  \cup {<<Upload("notes.txt", "text/plain", t)>> : t \in Texts}

UploadFile ==
  \E upload \in SingleUploads : UploadFileReceive(1, upload) /\ UNCHANGED env
UploadRead == \E ok \in BOOLEAN : UploadFileRead(1, ok) /\ UNCHANGED env

NextFiles == UploadFile \/ UploadRead \/ Ages \/ Sweeps

SpecFiles == Init /\ [][NextFiles]_vars

\* The uploads directory over time: chat requests with files that succeed
\* or fail before a timer is set, uploads through POST /upload, the requests'
\* timers, the passing of time and the periodic sweep.  The process keeps
\* running: every pending timer fires, every file grows older than maxAge
\* unless it is deleted first, and the sweep runs again and again.
DiskBody == <<P("messages", Msgs(<<MsgHi>>))>>
DiskOutcomes == {Throw, Response(200, BodyA)}
DiskUpload == <<Upload("cat.png", "image/png", <<137, 80, 78, 71>>)>>

\* The names a file of these requests can be stored under, and the timers
\* there can be.
Filenames == (1..MaxFiles) \X {"notes.txt", "cat.png"}
Timers ==
  {[files |-> S] : S \in
     {T \in SUBSET Filenames :
        \E upload \in UploadFiles :
          /\ Cardinality(T) = Len(upload)
          /\ Cardinality({f[1] : f \in T}) = Len(upload)
          /\ {f[2] : f \in T} = {upload[i].originalname : i \in 1..Len(upload)}}}

DiskChat ==
  \E files \in UploadFiles : UploadChatReceive(1, DiskBody, files) /\ UNCHANGED env
DiskFetched == \E o \in DiskOutcomes : UploadChatFetched(1, o) /\ UNCHANGED env
DiskUploadFile == UploadFileReceive(1, DiskUpload) /\ UNCHANGED env

NextDisk ==
  DiskChat \/ DiskFetched \/ DiskUploadFile \/ TimerFires \/ Ages \/ Sweeps

SpecDisk ==
  /\ Init /\ [][NextDisk]_vars
  /\ \A t \in Timers : WF_vars(CleanupTimerFires(t) /\ UNCHANGED env)
  /\ \A f \in Filenames : WF_vars(FileAges(f) /\ UNCHANGED env)
  /\ WF_vars(Sweeps)

\* The chat handler of the caching gateway with the upstream body arriving in
\* chunks: one request, streaming, plain or oversized, answered with
\* server-sent events or a JSON document in pieces.
\* a conversation whose newest message alone is over MAX_INPUT_CHARS
MsgHuge == Msg("user", "huge", MAX_INPUT_CHARS + 1)
BodyOversized == <<P("model", Str("gpt-4")), P("messages", Msgs(<<MsgHi, MsgHuge>>))>>

StreamBodies == {BodyStream, BodyPlain, BodyOversized}
StreamStatuses == {200, 429}
Chunks == {<<"d", "1">>, <<"d", "2">>, <<"{">>, <<"}">>}

StreamReceive ==
  /\ last.route = "none"
  /\ \E body \in StreamBodies : ChatReceive(1, body) /\ UNCHANGED <<env, disk>>
StreamRejects == ChatAttempt(1, Throw) /\ UNCHANGED <<env, disk>>
StreamResponds == \E status \in StreamStatuses : ChatResponds(1, status) /\ UNCHANGED <<env, disk>>
StreamChunk == \E chunk \in Chunks : ChatChunk(1, chunk) /\ UNCHANGED <<env, disk>>
StreamEnds == ChatBodyEnds(1) /\ UNCHANGED <<env, disk>>
StreamFails == ChatBodyFails(1) /\ UNCHANGED <<env, disk>>

NextStream ==
  \/ StreamReceive \/ StreamRejects \/ Wake \/ StreamResponds \/ StreamChunk
  \/ StreamEnds \/ StreamFails

SpecStream == Init /\ [][NextStream]_vars

\* truncateMessages on its own: every list of up to MaxLen messages whose
\* contents are empty, short, just under, at and just over MAX_INPUT_CHARS,
\* or absent (content: null), truncated once and then once more.
MaxLen == 3

MsgNull == [role |-> "assistant"]
TruncMessages ==
  {Msg("user", "empty", 0), Msg("user", "one", 1),
   Msg("user", "under", MAX_INPUT_CHARS - 1), Msg("user", "at", MAX_INPUT_CHARS),
   Msg("user", "over", MAX_INPUT_CHARS + 1), MsgNull}
MessageLists == UNION {[1..n -> TruncMessages] : n \in 0..MaxLen}

TruncInput(msgs) == [route |-> "truncate", msgs |-> msgs]

InitTruncate ==
  /\ pc = [r \in Slots |-> "idle"]
  /\ \E msgs \in MessageLists :
       req = [r \in Slots |-> IF r = 1 THEN TruncInput(msgs) ELSE NoReq]
  /\ call = [r \in Slots |-> NoCall]
  /\ cache = EmptyCache
  /\ overlap = [r \in Slots |-> FALSE]
  /\ transport = <<>>
  /\ OPENAI_KEY = TRUE
  /\ uploads = EmptyDir
  /\ timers = {}
  /\ last = NoReply

\* truncateMessages(msgs) is called on the input.
TruncateOnce ==
  /\ last.route = "none"
  /\ last' = [route |-> "truncate", msgs |-> req[1].msgs,
              once |-> truncateMessages(req[1].msgs), again |-> FALSE]
  /\ UNCHANGED <<pc, req, call, cache, overlap, env, disk>>

\* truncateMessages is called on what it returned.
TruncateAgain ==
  /\ last.route = "truncate" /\ ~last.again
  /\ last' = [route |-> "truncate", msgs |-> last.once,
              once |-> truncateMessages(last.once), again |-> TRUE]
  /\ UNCHANGED <<pc, req, call, cache, overlap, env, disk>>

NextTruncate == TruncateOnce \/ TruncateAgain

SpecTruncate == InitTruncate /\ [][NextTruncate]_vars

(* ------------------------------ claims -------------------------------- *)

\* What the claims compare of a normalized request: the model, the truncated
\* messages, the temperature and max_tokens.
Normalized4(b) ==
  <<Get(b, "model"), Get(b, "messages"), Get(b, "temperature"), Get(b, "max_tokens")>>

\* The properties of an object, whatever their order.
Properties(obj) == {obj[i] : i \in 1..Len(obj)}

\* The response the cache holds for a request once reply l is written.
StoredFor(l) == IF l.hit THEN l.res.value ELSE JSONparse(l.res.buffer)

\* C1: a non-streaming request that directly follows a non-streaming request
\* with the same normalized model, messages, temperature and max_tokens, whose
\* response the cache holds, is answered with that stored response and goes to
\* no upstream call.
C1_SecondServedFromCache ==
  [][(/\ pc[1] = "idle"
      /\ last.route = "chat" /\ ~last.stream
      /\ (last.hit \/ last.inserted))
     => /\ (pc'[1] = "calling" /\ ~req'[1].stream)
             => Normalized4(req'[1].body) # Normalized4(last.sent)
        /\ (/\ pc'[1] = "idle" /\ last' # last
            /\ last'.status # 400 /\ ~last'.stream
            /\ Normalized4(last'.sent) = Normalized4(last.sent))
             => /\ last'.hit
                /\ last'.calls = 0
                /\ last'.res = ResJson(StoredFor(last))]_vars

\* The keys of non-streaming requests.
PlainKeys(c) ==
  {k \in DOMAIN c : \A i \in 1..Len(k) : k[i] # <<"stream", Bool(TRUE)>>}

\* C2: the cache never holds more entries than its capacity (counted here
\* without the entries of streaming requests, which C3 keeps out of it).
C2_CacheBounded == Cardinality(PlainKeys(cache)) <= CACHE_CAPACITY

\* C3: a request with stream=true neither reads the cache nor inserts into it,
\* whatever the upstream answers.
C3_StreamBypassesCache ==
  (last.route = "chat" /\ last.stream)
    => (~last.lookedUp /\ ~last.hit /\ ~last.inserted)

\* C5: a request that normalizes to the same properties as the request before
\* it (they differ only in what the client spelled out, or in what order) has
\* the same cache key.
C5_FormattingCollides ==
  (/\ pc[1] = "calling"
   /\ last.route = "chat" /\ last.status # 400
   /\ Properties(req[1].body) = Properties(last.sent))
    => req[1].key = last.key

\* C4 as claimed: no other request uses the cache between a request's lookup
\* and its own insert.
C4_LookupInsertAtomic ==
  (last.route = "chat" /\ last.inserted) => ~last.overlapped

\* C4 as amended: the lookup (has and get) is one step and answers with the
\* entry held at that step, and a step changes the cache only by the insert of
\* the request that completes in it, which leaves every other key's entry in
\* place; lookup and insert of one request are separate steps.
C4_EachCacheOpAtomic ==
  [][/\ (last' # last /\ last'.route = "chat" /\ last'.hit)
         => /\ cache' = cache
            /\ cacheHas(cache, last'.key)
            /\ last'.res = ResJson(cacheGet(cache, last'.key))
     /\ (cache' # cache)
         => /\ last'.route = "chat" /\ last'.inserted
            /\ pc[last'.slot] = "calling" /\ req[last'.slot].key = last'.key
            /\ DOMAIN cache' = DOMAIN cache \cup {last'.key}
            /\ \A k \in DOMAIN cache : k # last'.key => cache'[k] = cache[k]]_vars

\* C4's case: a request has inserted after another used the cache in between.
C4_OverlappedInsert ==
  last.route = "chat" /\ last.inserted /\ last.overlapped

\* The transport of the retry scenarios rejects its first n calls.
FailsFirst(n) == \A k \in 1..n : transport[k].kind = "throw"

\* C6: over a transport that fails twice and then succeeds, the call returns
\* the third call's response after exactly three attempts and two delays, and
\* the handler passes that response on.
C6_ThirdAttemptReturned ==
  (FailsFirst(2) /\ transport[3].kind = "response" /\ last.route = "chat")
    => /\ last.calls = 3
       /\ Len(last.delays) = 2
       /\ last.result = transport[3]
       /\ last.status = transport[3].statusCode
       /\ last.res = ResSend(transport[3].body)

C6_FailedTwiceThenAnswered ==
  /\ FailsFirst(2) /\ transport[3].kind = "response"
  /\ last.route = "chat" /\ last.calls = 3

\* C7: over a transport that always fails, the call makes exactly retries (3)
\* attempts, never more, and throws the third attempt's error, which the chat
\* handler answers with status 500.
C7_GivesUpAfterRetries ==
  /\ call[1].attempts <= 3
  /\ (FailsFirst(retries + 1) /\ last.route = "chat")
       => /\ last.calls = 3
          /\ last.result = [kind |-> "error", err |-> NetworkError(3)]
          /\ last.status = 500
          /\ last.res = ResJson([error |-> "Chat failed"])

C7_AlwaysFailedAnswered ==
  FailsFirst(retries + 1) /\ last.route = "chat" /\ last.status = 500

\* C8: a 429 from the upstream is retried after a delay instead of being
\* returned to the caller on its first occurrence.
C8_RateLimitRetried ==
  (/\ transport[1].kind = "response" /\ transport[1].statusCode = 429
   /\ last.route = "chat")
    => (last.calls > 1 /\ Len(last.delays) >= 1)

\* A moderation call has failed: no credential, a network-level failure, or
\* an upstream status that is not a success.
ModerationFailed(l) ==
  \/ ~OPENAI_KEY
  \/ l.result.kind = "error"
  \/ (l.result.kind = "response" /\ l.result.statusCode \notin 200..299)

\* C9: a failed moderation call is answered with status 200 and a body that
\* holds flagged=false and bypassed=true.
C9_ModerationFailsOpen ==
  (last.route = "moderations" /\ ModerationFailed(last))
    => /\ last.status = 200
       /\ last.res.via = "json"
       /\ {"flagged", "bypassed"} \subseteq DOMAIN last.res.value
       /\ last.res.value.flagged = FALSE
       /\ last.res.value.bypassed = TRUE

\* C10: with the credential configured, a chat request without messages, or
\* with an empty list of them, is answered 400 and reaches no upstream call.
C10_EmptyMessagesRejected ==
  OPENAI_KEY =>
    /\ \A r \in Slots :
         (pc[r] # "idle" /\ req[r].route \in {"chat", "upload-chat"})
           => ~messagesMissing(req[r].body0)
    /\ (last.route \in {"chat", "upload-chat"} /\ messagesMissing(last.body0))
         => (last.status = 400 /\ last.calls = 0)

\* C11: when a chat request that came with uploaded files is answered, on
\* whatever path, a timer that deletes those files is pending.
C11_CleanupScheduled ==
  [][(last' # last /\ last'.route = "upload-chat" /\ last'.files # {})
       => [files |-> last'.files] \in timers']_vars

\* The sum of the content lengths of a list of messages.
RECURSIVE TotalLength(_)
TotalLength(msgs) ==
  IF msgs = <<>> THEN 0 ELSE ContentLength(Head(msgs)) + TotalLength(Tail(msgs))

\* s is the last Len(s) elements of t, in t's order.
IsSuffix(s, t) ==
  /\ Len(s) <= Len(t)
  /\ s = SubSeq(t, Len(t) - Len(s) + 1, Len(t))

\* C12: truncating what truncateMessages returned returns it again.
C12_TruncateIdempotent ==
  (last.route = "truncate" /\ last.again) => last.once = last.msgs

\* C12's case: a list that lost messages has been truncated a second time.
C12_TruncatedTwice ==
  /\ last.route = "truncate" /\ last.again
  /\ Len(last.msgs) > 0 /\ Len(last.msgs) < Len(req[1].msgs)

\* C13: a list whose total content length does not exceed MAX_INPUT_CHARS
\* comes back the same, in the same order, with nothing removed.
C13_UnderBudgetUnchanged ==
  (last.route = "truncate" /\ TotalLength(last.msgs) <= MAX_INPUT_CHARS)
    => last.once = last.msgs

\* C13's case: a list of several messages whose total is exactly the budget.
C13_ExactlyAtBudget ==
  /\ last.route = "truncate" /\ ~last.again
  /\ Len(last.msgs) > 1 /\ TotalLength(last.msgs) = MAX_INPUT_CHARS

\* C14: the result is a contiguous suffix of the input, in the input's order.
C14_ResultIsSuffix ==
  last.route = "truncate" => IsSuffix(last.once, last.msgs)

\* C14's case: an older message alone would still fit after a newer one did
\* not, and the result stops at the newer one.
C14_StoppedBeforeFittingMessage ==
  /\ last.route = "truncate" /\ ~last.again
  /\ Len(last.once) > 0 /\ Len(last.once) + 1 < Len(last.msgs)
  /\ TotalLength(last.once) + ContentLength(last.msgs[1]) <= MAX_INPUT_CHARS

\* p is the first Len(p) elements of t.
IsPrefix(p, t) == Len(p) <= Len(t) /\ p = SubSeq(t, 1, Len(p))

\* C15: while a streaming request reads the body of a 200 from the upstream,
\* the client has been sent a prefix of the bytes received so far, and by the
\* step in which the upstream ends the body the first chunk has already been
\* sent.
C15_ChunksForwardedAsTheyArrive ==
  [][\A r \in Slots :
       (pc[r] = "reading" /\ req[r].stream /\ call[r].result.statusCode = 200)
         => /\ IsPrefix(req[r].res, BufferConcat(req[r].chunks))
            /\ (pc'[r] = "idle" /\ req[r].chunks # <<>>) => req[r].res # <<>>]_vars

\* C16: the cache changes only by the insert of a response that the upstream
\* answered with status 200, whose body is under the size ceiling and parses
\* as JSON; a body that does not parse is not cached, and the caller receives
\* the upstream's status and body.
C16_OnlyParsedSmall200Cached ==
  [][/\ (cache' # cache)
         => /\ last'.route = "chat" /\ last'.result.kind = "response"
            /\ last'.result.statusCode = 200
            /\ last'.result.body.length < CACHE_SIZE_CEILING
            /\ last'.result.body.parses
            /\ cache' = cacheSet(cache, last'.key, JSONparse(last'.result.body))
     /\ (/\ last' # last /\ last'.route = "chat"
         /\ last'.result.kind = "response" /\ ~last'.result.body.parses)
         => /\ cache' = cache
            /\ last'.status = last'.result.statusCode
            /\ last'.res = ResSend(last'.result.body)]_vars

\* C16's case: a 200 whose body does not parse has been answered.
C16_UnparsableAnswered ==
  /\ last.route = "chat" /\ last.result.kind = "response"
  /\ last.result.statusCode = 200 /\ ~last.result.body.parses
  /\ cache # EmptyCache

\* C17: a chat completion that the upstream answered with a status other
\* than 200 is answered with that status and that body, and the answer was
\* the request's last upstream call.
C17_ErrorStatusPassedThrough ==
  (/\ last.route \in {"chat", "upload-chat"}
   /\ last.result.kind = "response" /\ last.result.statusCode # 200)
    => /\ last.status = last.result.statusCode
       /\ \/ last.res = ResSend(last.result.body)
          \/ (last.result.body.parses /\ last.res = ResJson(JSONparse(last.result.body)))
       /\ last.calls = Len(last.delays) + 1

\* C18: without the credential every chat and completions request is answered
\* 500 with the configuration message, and none goes to the upstream.
C18_MissingCredentialIs500 ==
  ~OPENAI_KEY =>
    /\ \A r \in Slots : pc[r] = "idle"
    /\ last.route \in {"chat", "upload-chat", "completions"}
         => /\ last.status = 500
            /\ last.res = ResJson([error |-> "Server configuration error"])
            /\ last.calls = 0

\* C19: a legacy completions request goes to the upstream as a chat request
\* of a system message followed by a user message holding the prompt, and the
\* chat completion that comes back is answered as a text_completion whose
\* first choice's text is the chat completion's message content.
C19_LegacyWrappedAsChat ==
  /\ \A r \in Slots :
       (pc[r] = "fetching" /\ req[r].route = "completions")
         => /\ req[r].url = "https://api.openai.com/v1/chat/completions"
            /\ Has(req[r].body, "messages")
            /\ LET messages == Get(req[r].body, "messages").msgs IN
               /\ Len(messages) = 2
               /\ messages[1].role = "system"
               /\ messages[2].role = "user"
               /\ messages[2].content.text = Get(legacyUpstreamBody(req[r].body0), "prompt").str
  /\ (/\ last.route = "completions" /\ last.result.kind = "response"
      /\ last.status = 200 /\ last.result.body.parses)
       => LET up == last.result.body.text
              value == last.res.value.json IN
          /\ up.object = "chat.completion"
          /\ value.object = "text_completion"
          /\ value.choices[1].text = up.choices[1].message.content

\* C20: the upload of a plain-text file with text t is answered with the
\* first min(|t|, 2000) characters of t as extractedText, and with
\* fullTextAvailable exactly when |t| > 2000.
C20_ExtractedTextIsExcerpt ==
  (/\ last.route = "upload" /\ last.status = 200
   /\ last.file.mimetype = "text/plain")
    => LET t == last.file.text
           n == Min(Len(t), 2000) IN
       /\ Len(last.res.value.extractedText) = n
       /\ \A i \in 1..n : last.res.value.extractedText[i] = t[i]
       /\ last.res.value.fullTextAvailable = (Len(t) > 2000)
       /\ (t = HelloWorld)
            => /\ last.res.value.extractedText = HelloWorld
               /\ ~last.res.value.fullTextAvailable

\* C20's case: a text file of more than 2000 characters has been uploaded
\* and answered.
C20_LongTextUploaded ==
  /\ last.route = "upload" /\ last.status = 200
  /\ last.file.mimetype = "text/plain" /\ Len(last.file.text) > 2000

\* The waits of the call in flight and of the call behind the last response;
\* the k-th wait follows the failure of the attempt whose 0-based index is
\* k - 1.
WaitsSoFar == {call[1].delays} \cup (IF last.route = "chat" THEN {last.delays} ELSE {})

\* C21 as claimed: the wait after the failure of the attempt with 0-based
\* index i is delay * i.
C21_WaitIsDelayTimesIndex ==
  \A w \in WaitsSoFar : \A k \in 1..Len(w) : w[k] = delay * (k - 1)

\* C21 as amended: the wait after the failure of the attempt with 0-based
\* index i is delay * (i + 1), and the last attempt's failure is followed by
\* no wait.
C21_WaitIsDelayTimesIndexPlusOne ==
  \A w \in WaitsSoFar :
    /\ Len(w) <= retries - 1
    /\ \A k \in 1..Len(w) : w[k] = delay * ((k - 1) + 1)

\* C21's case: a call has waited after its first and after its second
\* failure.
C21_WaitedTwice == Len(call[1].delays) = 2 /\ pc[1] = "sleeping"

\* The index of the last message whose role is user.
LastUserIndex(messages) ==
  CHOOSE u \in 1..Len(messages) :
    /\ messages[u].role = "user"
    /\ \A i \in (u + 1)..Len(messages) : messages[i].role # "user"

\* C22: the chat request of a client that sent files goes upstream with the
\* file context appended to the last message whose role is user, and with
\* every other message as the client sent it.
C22_ContextOnLastUserMessage ==
  \A r \in Slots :
    (/\ pc[r] = "fetching" /\ req[r].route = "upload-chat"
     /\ req[r].files # <<>> /\ Has(req[r].body0, "messages")
     /\ \E i \in 1..Len(Get(req[r].body0, "messages").msgs) :
          Get(req[r].body0, "messages").msgs[i].role = "user")
      => LET received == Get(req[r].body0, "messages").msgs
             sent == Get(req[r].body, "messages").msgs
             u == LastUserIndex(received) IN
         /\ Len(sent) = Len(received)
         /\ \A i \in 1..Len(received) : i # u => sent[i] = received[i]
         /\ sent[u].role = "user"
         /\ sent[u].content = [text |-> received[u].content.text,
                               context |-> fileContextOf(req[r].files)]

\* C23: whatever temperature and max_tokens the client sent or left out, a
\* chat request goes upstream with a temperature of 0 to 2 and with
\* max_tokens no greater than its program's ceiling.
C23_ParametersClamped ==
  \A r \in Slots :
    (pc[r] # "idle" /\ req[r].route \in {"chat", "upload-chat"})
      => /\ Get(req[r].body, "temperature").num >= 0
         /\ Get(req[r].body, "temperature").num <= TEMP_CEILING
         /\ Get(req[r].body, "max_tokens").num
              <= (IF req[r].route = "chat" THEN MAX_TOKENS_OUT
                  ELSE VARIANT_MAX_TOKENS_OUT)

\* The newest message of the body's list alone is over the budget.
NewestOverBudget(body) ==
  /\ Has(body, "messages")
  /\ Len(Get(body, "messages").msgs) > 0
  /\ LET msgs == Get(body, "messages").msgs IN
     ContentLength(msgs[Len(msgs)]) > MAX_INPUT_CHARS

\* C24: a chat request whose newest message alone is over the budget is in
\* flight to the upstream with an empty list of messages, and what it is
\* answered with comes from the upstream, not from the 400 of validation.
C24_OversizedSentEmpty ==
  /\ \A r \in Slots :
       (pc[r] # "idle" /\ req[r].route = "chat" /\ NewestOverBudget(req[r].body0))
         => Get(req[r].body, "messages").msgs = <<>>
  /\ (last.route = "chat" /\ NewestOverBudget(last.body0))
       => /\ last.res # ResJson([error |-> "Messages required"])
          /\ Get(last.sent, "messages").msgs = <<>>
          /\ (last.hit \/ last.calls >= 1)

\* C24's case: such a request has been answered by the upstream with 200.
C24_OversizedAnswered ==
  /\ last.route = "chat" /\ NewestOverBudget(last.body0)
  /\ last.status = 200 /\ last.calls >= 1

\* C25: whatever the interleaving, the cache changes only when a request
\* completes with an upstream response, and then only under that request's
\* own key, the serialization of the body it sent, which from then on holds
\* that response (the last completed insert wins) while every other key keeps
\* its entry; a hit answers with the entry under the request's own key.
C25_EntryIsOwnUpstreamResponse ==
  [][/\ (cache' # cache)
         => \E r \in Slots :
              /\ pc[r] = "calling" /\ pc'[r] = "idle" /\ last'.slot = r
              /\ last'.result.kind = "response"
              /\ req[r].key = cacheKey(req[r].body)
              /\ DOMAIN cache' = DOMAIN cache \cup {req[r].key}
              /\ \A k \in DOMAIN cache : k # req[r].key => cache'[k] = cache[k]
     /\ (last' # last /\ last'.route = "chat" /\ last'.inserted)
         => /\ last'.key = cacheKey(last'.sent)
            /\ cache'[last'.key] = JSONparse(last'.result.body)
     /\ (last' # last /\ last'.route = "chat" /\ last'.hit)
         => last'.res = ResJson(cache[cacheKey(last'.sent)])]_vars

\* C25's case: of two requests in flight with the same key one has inserted
\* its response, and the other is still to complete.
C25_SameKeyInFlightAfterInsert ==
  /\ last.route = "chat" /\ last.inserted
  /\ \E r \in Slots :
       /\ r # last.slot /\ pc[r] = "calling"
       /\ req[r].key = last.key /\ req[r].lookedUp

\* C26: every file in the uploads directory is eventually deleted, and when
\* a timer has fired none of its files is left, whether or not one of them
\* was already gone.
C26_UploadsEventuallyDeleted ==
  /\ \A f \in Filenames : (f \in DOMAIN uploads) ~> (f \notin DOMAIN uploads)
  /\ [][\A t \in timers : t \notin timers' => t.files \cap DOMAIN uploads' = {}]_vars

\* C26's case: the sweep has deleted one file of a pending timer and the
\* other file of that timer is still in the directory.
C26_TimerOverPartlySweptFiles ==
  \E t \in timers :
    /\ t.files \ DOMAIN uploads # {}
    /\ t.files \cap DOMAIN uploads # {}

====
